---- MODULE Spec2Model ----
(***************************************************************************)
(* ElectroGPT (src/app.py): a Streamlit script that is re-run from top to  *)
(* bottom on every user interaction.  One run of main() initialises the    *)
(* session store, handles the question typed in the text box (if any) and  *)
(* then, when the 'Process' button was clicked, extracts the text of the   *)
(* uploaded PDFs, chunks it, builds a vector store and installs a new      *)
(* conversation chain.                                                     *)
(*                                                                         *)
(* A text is modelled by the sequence of the lengths of its lines (what    *)
(* text.split('\n') yields, measured with len): the text splitter only     *)
(* looks at these lengths.  "" is <<0>>.                                   *)
(*                                                                         *)
(* The model follows one browser session, whose script runs one after the  *)
(* other: a run starts when none is in progress.  The calls into           *)
(* langchain (CharacterTextSplitter, FAISS.from_texts,                     *)
(* ConversationBufferMemory, ConversationalRetrievalChain) are modelled by *)
(* what these classes do when called as src/app.py calls them.             *)
(***************************************************************************)
EXTENDS Integers, Sequences, FiniteSets, TLC

\* ---------------------------------------------------------------- bounds
MaxSessions == 2      \* conversation chains created in one browser session
MaxAsks == 3          \* answered questions held by the chain objects
MaxDocs == 1          \* uploaded datasheets in one run

\* ------------------------------------------------------- program constants
chunk_size == 1000
chunk_overlap == 200
separator_len == 1    \* len('\n')

\* ------------------------------------------------------------ input sets
Questions == {"q1", "q2"}
Answers == {"a1"}
\* what the question generator (an LLM call) may return for a follow-up
StandaloneQuestions == Questions \cup {"sq"}
\* a PDF that PdfReader cannot read
Corrupt == <<-1>>
\* extracted texts of the readable PDFs: no text, 1200 characters without a
\* newline, and texts of several lines
DocTexts == { <<0>>, <<1200>>, <<500, 150, 400>> }
Documents == DocTexts \cup {Corrupt}
Uploads == UNION { [1..n -> Documents] : n \in 0..MaxDocs }

\* st.session_state keys: not yet set, None, or a value
Absent == -1
None == 0
AbsentHistory == [state |-> "absent", messages |-> <<>>]
NoHistory == [state |-> "none", messages |-> <<>>]

VARIABLES
    conversation,    \* st.session_state.conversation: Absent, None or a chain id
    chat_history,    \* st.session_state.chat_history: absent, None or the messages
    chains,          \* the chain objects created so far: [vectorstore, memory]
    pc,              \* position of the script run in main()
    user_question,   \* value of the text input in this run ("" when empty)
    raw_text,        \* local of main()
    text_chunks,     \* local of main()
    vectorstore,     \* local of main()
    error,           \* exception raised in this run ("none" when none)
    retriever_query, \* query the chain gave its retriever in this run
    llm_history,     \* chat history the chain gave the language model in this run
    rendered,        \* chat bubbles written to the page in this run
    run              \* bookkeeping of the run: session at its start, what it asked

vars == <<conversation, chat_history, chains, pc, user_question, raw_text,
          text_chunks, vectorstore, error, retriever_query, llm_history,
          rendered, run>>

\* ------------------------------------------------------------ TextExtractor
RECURSIVE SumSeq(_)
SumSeq(s) == IF s = <<>> THEN 0 ELSE Head(s) + SumSeq(Tail(s))

\* text += page.extract_text(): no separator, so the last line of the text
\* and the first line of the addition become one line
TextAppend(text, more) ==
    SubSeq(text, 1, Len(text) - 1) \o <<text[Len(text)] + more[1]>> \o Tail(more)

RECURSIVE get_datasheets_text(_)
get_datasheets_text(docs) ==
    IF docs = <<>> THEN <<0>>
    ELSE TextAppend(get_datasheets_text(SubSeq(docs, 1, Len(docs) - 1)),
                    docs[Len(docs)])

PdfReaderFails(docs) == \E i \in DOMAIN docs : docs[i] = Corrupt

\* ------------------------------------------------------------------ Chunker
\* CharacterTextSplitter(separator='\n', chunk_size=1000, chunk_overlap=200,
\* length_function=len).split_text, as called by get_text_chunks.

\* text.strip() on the joined lines: leading and trailing empty lines go
RECURSIVE StripLeft(_)
StripLeft(s) == IF s # <<>> /\ Head(s) = 0 THEN StripLeft(Tail(s)) ELSE s

RECURSIVE StripRight(_)
StripRight(s) ==
    IF s # <<>> /\ s[Len(s)] = 0 THEN StripRight(SubSeq(s, 1, Len(s) - 1)) ELSE s

\* _join_docs: separator.join(docs).strip(); <<>> stands for the None it
\* returns when nothing is left
JoinDocs(cur) == StripRight(StripLeft(cur))

\* len of a chunk: its lines and the separators between them
ChunkLen(chunk) ==
    IF chunk = <<>> THEN 0 ELSE SumSeq(chunk) + separator_len * (Len(chunk) - 1)

SepIf(cond) == IF cond THEN separator_len ELSE 0

\* the inner while loop of _merge_splits: drop lines from the front of the
\* current chunk until what is left fits the overlap and leaves room for d
RECURSIVE PopFront(_, _, _)
PopFront(cur, total, dlen) ==
    IF total > chunk_overlap
       \/ (total + dlen + SepIf(Len(cur) > 0) > chunk_size /\ total > 0)
    THEN PopFront(Tail(cur), total - (Head(cur) + SepIf(Len(cur) > 1)), dlen)
    ELSE [cur |-> cur, total |-> total]

AppendDoc(docs, cur) ==
    IF JoinDocs(cur) = <<>> THEN docs ELSE Append(docs, JoinDocs(cur))

\* a line that does not fit closes the current chunk; a line longer than
\* chunk_size is only logged, never cut
TooLong(total, dlen, cur) == total + dlen + SepIf(Len(cur) > 0) > chunk_size

\* one iteration of the for loop of _merge_splits
MergeStep(st, dlen) ==
    LET closed == IF TooLong(st.total, dlen, st.cur) /\ Len(st.cur) > 0
                  THEN LET p == PopFront(st.cur, st.total, dlen)
                       IN  [docs |-> AppendDoc(st.docs, st.cur),
                            cur |-> p.cur, total |-> p.total]
                  ELSE st
        cur2 == Append(closed.cur, dlen)
    IN  [docs |-> closed.docs, cur |-> cur2,
         total |-> closed.total + dlen + SepIf(Len(cur2) > 1)]

RECURSIVE MergeLoop(_, _)
MergeLoop(splits, st) ==
    IF splits = <<>> THEN st ELSE MergeLoop(Tail(splits), MergeStep(st, Head(splits)))

merge_splits(splits) ==
    LET st == MergeLoop(splits, [docs |-> <<>>, cur |-> <<>>, total |-> 0])
    IN  AppendDoc(st.docs, st.cur)

\* text.split('\n') is the text itself in this representation
get_text_chunks(text) == merge_splits(text)

\* ------------------------------------------------------------- VectorIndex
\* faulty variant: an empty index is built
FromTextsFails_AcceptsEmpty(chunks) == FALSE

\* FAISS.from_texts: indexes every chunk; with no chunk it reads
\* embeddings[0] of an empty list and raises IndexError
FromTextsFails(chunks) == chunks = <<>>

get_vectorstore(chunks) == chunks

\* ------------------------------------------------------ ConversationSession
Human(q) == [role |-> "human", content |-> q]
AI(a) == [role |-> "ai", content |-> a]

\* get_conversation_chain: a new chain object with a new, empty
\* ConversationBufferMemory and a retriever over the given vector store
get_conversation_chain(vs) == [vectorstore |-> vs, memory |-> <<>>]

\* a chain object that nothing refers to any more
Collected == [vectorstore |-> <<>>, memory |-> <<>>]

\* faulty variant: the stored chain is reused and given the new index
WithNewChain_InPlace(cs, stored, vs) ==
    IF cs = <<>> THEN <<get_conversation_chain(vs)>>
    ELSE [cs EXCEPT ![Len(cs)].vectorstore = vs]

\* the objects after get_conversation_chain(vs): the new chain is one more
\* object and the stored one is left as it is.  The chain that the stored
\* one had replaced is dropped here; the program drops a chain as soon as it
\* is replaced, the model keeps it until the next one is, so that it can
\* be compared with what it was.
WithNewChain(cs, stored, vs) ==
    Append([i \in DOMAIN cs |-> IF i = stored THEN cs[i] ELSE Collected],
           get_conversation_chain(vs))

\* Chain.prep_inputs: memory.load_memory_variables -> inputs['chat_history']
LoadMemory(chain) == chain.memory

\* faulty variant: the new turn is put in front of the earlier ones
SaveContext_Prepends(memory, q, a) == <<Human(q), AI(a)>> \o memory

\* Chain.prep_outputs: memory.save_context(inputs, outputs) after _call returned
SaveContext(memory, q, a) == memory \o <<Human(q), AI(a)>>

\* faulty variant: the question is saved before the backends are called
MemoryAfterFailure_SavesQuestion(memory, q) == Append(memory, Human(q))

\* what the memory holds after _call raised: prep_outputs was not reached
MemoryAfterFailure(memory, q) == memory

\* faulty variant: the question is rewritten on every ask
RetrievalQueries_AlwaysRewrites(history, q) == StandaloneQuestions

\* ConversationalRetrievalChain._call: with a non-empty chat history the
\* question generator rewrites the question, and the rewritten question is
\* what the retriever gets; with an empty one the question is used as is
RetrievalQueries(history, q) ==
    IF history # <<>> THEN StandaloneQuestions ELSE {q}

\* handle_userinput's loop: user template on even positions, bot on odd ones
Render(messages) ==
    [i \in DOMAIN messages |->
        [template |-> IF (i - 1) % 2 = 0 THEN "user" ELSE "bot",
         msg |-> messages[i].content]]

HistoryOf(messages) == [state |-> "set", messages |-> messages]

\* ------------------------------------------------------------------- main()
\* faulty variant: the guard is missing and every run resets the key
DefaultConversation_Always(c) == None

\* if "conversation" not in st.session_state: st.session_state.conversation = None
DefaultConversation(c) == IF c = Absent THEN None ELSE c

\* if "chat_history" not in st.session_state: st.session_state.chat_history = None
DefaultChatHistory(h) == IF h = AbsentHistory THEN NoHistory ELSE h

\* faulty variant: the sidebar block comes first
AfterTextInput_SidebarFirst == "sidebar"

\* the statement main() executes after reading the text input: the question
\* is handled before the sidebar is drawn
AfterTextInput == "question"

NoRun == [start |-> None, asked |-> FALSE, asked_on |-> None, returned |-> FALSE]

Init ==
    /\ conversation = Absent
    /\ chat_history = AbsentHistory
    /\ chains = <<>>
    /\ pc = "idle"
    /\ user_question = ""
    /\ raw_text = <<0>>
    /\ text_chunks = <<>>
    /\ vectorstore = <<>>
    /\ error = "none"
    /\ retriever_query = ""
    /\ llm_history = <<>>
    /\ rendered = <<>>
    /\ run = NoRun

Ready == conversation \notin {Absent, None}

\* answered questions held by the chains
RECURSIVE Turns(_)
Turns(cs) == IF cs = <<>> THEN 0 ELSE Len(Head(cs).memory) \div 2 + Turns(Tail(cs))

\* the run is over: its locals, its page and its bookkeeping are gone
EndRun ==
    /\ pc' = "idle"
    /\ user_question' = ""
    /\ raw_text' = <<0>>
    /\ text_chunks' = <<>>
    /\ vectorstore' = <<>>
    /\ retriever_query' = ""
    /\ llm_history' = <<>>
    /\ rendered' = <<>>
    /\ error' = "none"
    /\ run' = NoRun

\* a statement of the run raises err: nothing below it is executed
Raise(err) ==
    /\ pc' = "raised"
    /\ error' = err

\* A user interaction starts a run of the script: session state defaults,
\* then the text input returns its value.
Rerun(q) ==
    /\ pc = "idle"
    /\ (q # "" /\ Ready) => Turns(chains) < MaxAsks
    /\ conversation' = DefaultConversation(conversation)
    /\ chat_history' = DefaultChatHistory(chat_history)
    /\ user_question' = q
    /\ pc' = AfterTextInput
    /\ run' = [start |-> conversation', asked |-> FALSE, asked_on |-> None,
               returned |-> FALSE]
    /\ UNCHANGED <<chains, raw_text, text_chunks, vectorstore, error,
                   retriever_query, llm_history, rendered>>

\* if user_question: is false
NoQuestion ==
    /\ pc = "question"
    /\ user_question = ""
    /\ pc' = "sidebar"
    /\ UNCHANGED <<conversation, chat_history, chains, user_question, raw_text, text_chunks, vectorstore, error,
                   retriever_query, llm_history, rendered, run>>

\* handle_userinput with st.session_state.conversation None: calling None
\* raises TypeError ('NoneType' object is not callable)
AskNotReady ==
    /\ pc = "question"
    /\ user_question # ""
    /\ conversation = None
    /\ Raise("TypeError")
    /\ run' = [run EXCEPT !.asked = TRUE, !.asked_on = conversation]
    /\ UNCHANGED <<conversation, chat_history, chains, user_question, raw_text, text_chunks, vectorstore, retriever_query,
                   llm_history, rendered>>

\* handle_userinput, the chain's call raising at one of its backend calls:
\* the question generator (only called with a non-empty history), the
\* retriever, or the answering language model
AskFails(stage, nq) ==
    /\ pc = "question"
    /\ user_question # ""
    /\ conversation # None
    /\ LET history == LoadMemory(chains[conversation])
       IN  /\ nq \in RetrievalQueries(history, user_question)
           /\ stage = "question_generator" => history # <<>>
           /\ llm_history' = IF stage = "retriever" THEN <<>> ELSE history
           /\ retriever_query' = IF stage = "question_generator" THEN "" ELSE nq
    /\ chains' = [chains EXCEPT ![conversation].memory =
                      MemoryAfterFailure(@, user_question)]
    /\ Raise("AskBackendError")
    /\ run' = [run EXCEPT !.asked = TRUE, !.asked_on = conversation]
    /\ UNCHANGED <<conversation, chat_history, user_question, raw_text, text_chunks, vectorstore, rendered>>

\* handle_userinput, the chain's call returning: the turn is saved in the
\* chain's memory, response['chat_history'] is that memory's message list,
\* and every message of it is written to the page
AskOk(a, nq) ==
    /\ pc = "question"
    /\ user_question # ""
    /\ conversation # None
    /\ LET history == LoadMemory(chains[conversation])
           saved == SaveContext(history, user_question, a)
       IN  /\ nq \in RetrievalQueries(history, user_question)
           /\ llm_history' = history
           /\ retriever_query' = nq
           /\ chains' = [chains EXCEPT ![conversation].memory = saved]
           /\ chat_history' = HistoryOf(saved)
           /\ rendered' = Render(chat_history'.messages)
    /\ run' = [run EXCEPT !.asked = TRUE, !.asked_on = conversation,
                          !.returned = TRUE]
    /\ pc' = "sidebar"
    /\ UNCHANGED <<conversation, user_question, raw_text,
                   text_chunks, vectorstore, error>>

\* if st.button('Process'): is false; the script ends
NoProcess ==
    /\ pc = "sidebar"
    /\ EndRun
    /\ UNCHANGED <<conversation, chat_history, chains>>

\* 'Process' was clicked with docs in the file uploader;
\* raw_text = get_datasheets_text(datasheets), PdfReader raising
ExtractFails(docs) ==
    /\ pc = "sidebar"
    /\ PdfReaderFails(docs)
    /\ Raise("PdfReadError")
    /\ UNCHANGED <<conversation, chat_history, chains, user_question, raw_text,
                   text_chunks, vectorstore, retriever_query, llm_history,
                   rendered, run>>

\* 'Process' was clicked with docs in the file uploader;
\* raw_text = get_datasheets_text(datasheets)
ExtractOk(docs) ==
    /\ pc = "sidebar"
    /\ ~PdfReaderFails(docs)
    /\ raw_text' = get_datasheets_text(docs)
    /\ pc' = "chunk"
    /\ UNCHANGED <<conversation, chat_history, chains, user_question,
                   text_chunks, vectorstore, error, retriever_query,
                   llm_history, rendered, run>>

\* text_chunks = get_text_chunks(raw_text)
Chunk ==
    /\ pc = "chunk"
    /\ text_chunks' = get_text_chunks(raw_text)
    /\ pc' = "build"
    /\ UNCHANGED <<conversation, chat_history, chains, user_question, raw_text, vectorstore, error, retriever_query,
                   llm_history, rendered, run>>

\* vectorstore = get_vectorstore(text_chunks), with no chunk to index
BuildFailsEmpty ==
    /\ pc = "build"
    /\ FromTextsFails(text_chunks)
    /\ Raise("IndexError")
    /\ UNCHANGED <<conversation, chat_history, chains, user_question, raw_text, text_chunks, vectorstore, retriever_query,
                   llm_history, rendered, run>>

\* vectorstore = get_vectorstore(text_chunks), the embedding backend raising
BuildFailsBackend ==
    /\ pc = "build"
    /\ ~FromTextsFails(text_chunks)
    /\ Raise("EmbeddingBackendError")
    /\ UNCHANGED <<conversation, chat_history, chains, user_question, raw_text, text_chunks, vectorstore, retriever_query,
                   llm_history, rendered, run>>

\* vectorstore = get_vectorstore(text_chunks)
BuildOk ==
    /\ pc = "build"
    /\ ~FromTextsFails(text_chunks)
    /\ vectorstore' = get_vectorstore(text_chunks)
    /\ pc' = "install"
    /\ UNCHANGED <<conversation, chat_history, chains, user_question, raw_text, text_chunks, error, retriever_query,
                   llm_history, rendered, run>>

\* get_conversation_chain(vectorstore) raising (ChatOpenAI() without a key)
InstallFails ==
    /\ pc = "install"
    /\ Raise("LLMBackendError")
    /\ UNCHANGED <<conversation, chat_history, chains, user_question, raw_text, text_chunks, vectorstore, retriever_query,
                   llm_history, rendered, run>>

\* st.session_state.conversation = get_conversation_chain(vectorstore);
\* the script ends
Install ==
    /\ pc = "install"
    /\ Len(chains) < MaxSessions
    /\ chains' = WithNewChain(chains, conversation, vectorstore)
    /\ conversation' = Len(chains')
    /\ EndRun
    /\ UNCHANGED chat_history

\* the exception leaves main(): the run is over, the session state stays
Propagate ==
    /\ pc = "raised"
    /\ EndRun
    /\ UNCHANGED <<conversation, chat_history, chains>>

Stages == {"question_generator", "retriever", "llm"}

Next ==
    \/ \E q \in Questions \cup {""} : Rerun(q)
    \/ NoQuestion
    \/ AskNotReady
    \/ \E stage \in Stages, nq \in StandaloneQuestions : AskFails(stage, nq)
    \/ \E a \in Answers, nq \in StandaloneQuestions : AskOk(a, nq)
    \/ NoProcess
    \/ \E docs \in Uploads : ExtractFails(docs)
    \/ \E docs \in Uploads : ExtractOk(docs)
    \/ Chunk
    \/ BuildFailsEmpty
    \/ BuildFailsBackend
    \/ BuildOk
    \/ InstallFails
    \/ Install
    \/ Propagate

Spec == Init /\ [][Next]_vars

\* ================================================================== claims
ProcessStages == {"sidebar", "chunk", "build", "install"}
ProcessErrors == {"PdfReadError", "IndexError", "EmbeddingBackendError",
                  "LLMBackendError"}

\* a step of the Process action that ends the run with an exception
ProcessFailedStep == pc \in ProcessStages /\ pc' = "raised"

\* C1: a Process whose extraction, chunking or index build fails installs no
\* session: the stored session, every chain object (its index and its
\* history) and the stored chat history are what they were; and the build on
\* an empty chunk set always fails.
C1_FailedProcessKeepsSession ==
    [][ /\ ProcessFailedStep =>
               /\ conversation' = conversation
               /\ chains' = chains
               /\ chat_history' = chat_history
        /\ (pc = "build" /\ text_chunks = <<>>) =>
               (pc' = "raised" /\ error' = "IndexError")
        /\ pc = "raised" =>
               /\ pc' = "idle"
               /\ conversation' = conversation
               /\ chains' = chains ]_vars

\* C1 witness: a Process on zero chunks has just failed in a run whose
\* question the earlier session answered; that session is still the stored
\* one and holds its two turns.
C1_Witness ==
    /\ pc = "raised"
    /\ error = "IndexError"
    /\ run.returned
    /\ conversation = 1
    /\ Len(chains) = 1
    /\ Len(chains[1].memory) = 4
    /\ chat_history = HistoryOf(chains[1].memory)

\* C2 (as stated): a question asked while the stored conversation is None is
\* rejected with SessionNotReady and leaves the session state alone.
C2_NotReadyRejected ==
    [][ (pc = "question" /\ user_question # "" /\ conversation = None) =>
            /\ error' = "SessionNotReady"
            /\ conversation' = conversation
            /\ chat_history' = chat_history
            /\ chains' = chains ]_vars

\* a step of handle_userinput in which the chain's call raised
AskFailedStep == pc = "question" /\ Ready /\ pc' = "raised"

\* C3: an ask that fails on a Ready session appends nothing: the chain's
\* memory and the stored chat_history are what they were, and the session
\* stays the stored, Ready one.
C3_FailedAskKeepsHistory ==
    [][ (AskFailedStep \/ pc = "raised") =>
            /\ chains' = chains
            /\ chat_history' = chat_history
            /\ conversation' = conversation ]_vars

\* C3 witness: the answering language model has just failed on the third
\* question of a session, after the retriever got its query; the session
\* holds its two turns.
C3_Witness ==
    /\ pc = "raised"
    /\ error = "AskBackendError"
    /\ retriever_query # ""
    /\ run.asked_on = conversation
    /\ Len(chains[conversation].memory) = 4
    /\ chat_history = HistoryOf(chains[conversation].memory)

\* an ask that returned
AskReturnedStep == pc = "question" /\ user_question # "" /\ pc' = "sidebar"

\* C4: as long as a chain is the stored one, its memory changes only by one
\* (question, answer) turn appended at its end, every ask that returns
\* appends one, and the history given to the language model on that ask is
\* the memory as it was before: all earlier turns, in order.
C4_HistoryAppendOnly ==
    [][ /\ (Ready /\ chains'[conversation].memory # chains[conversation].memory) =>
               /\ AskReturnedStep
               /\ \E a \in Answers :
                      chains'[conversation].memory =
                          chains[conversation].memory
                              \o <<Human(user_question), AI(a)>>
               /\ llm_history' = chains[conversation].memory
        /\ AskReturnedStep =>
               Len(chains'[conversation].memory) =
                   Len(chains[conversation].memory) + 2 ]_vars

\* C4 witness: the third ask on one session returned: the model was given
\* the first two turns and the memory holds the three, the questions of the
\* first two differing.
C4_Witness ==
    /\ pc = "sidebar"
    /\ run.returned
    /\ Len(llm_history) = 4
    /\ chains[conversation].memory = llm_history \o <<Human(user_question), AI("a1")>>
    /\ llm_history[1].content # llm_history[3].content

\* C5: a Process that succeeds adds a new chain object, bound to the index
\* just built and with an empty memory, and stores it; the index of the
\* stored chain never changes and the chain that is replaced is left as it
\* was, index and memory; an ask gives the language model, and renders, the
\* memory of the stored chain only.
C5_ProcessInstallsFreshSession ==
    [][ /\ Ready =>
               /\ conversation \in DOMAIN chains'
               /\ chains'[conversation].vectorstore = chains[conversation].vectorstore
        /\ (pc = "install" /\ pc' = "idle") =>
               /\ conversation' \notin DOMAIN chains
               /\ conversation' \in DOMAIN chains'
               /\ chains'[conversation'] = [vectorstore |-> vectorstore, memory |-> <<>>]
               /\ Ready => chains'[conversation] = chains[conversation]
        /\ (pc = "question" /\ pc' = "sidebar" /\ user_question # "") =>
               /\ llm_history' = chains[conversation].memory
               /\ rendered' = Render(chains'[conversation].memory)
               /\ Len(rendered') = Len(llm_history') + 2 ]_vars

\* C5 witness: the first ask on a second session, made after the first
\* session had a turn: the model got an empty history and one turn is
\* rendered, while the first session still holds its turn.
C5_Witness ==
    /\ pc = "sidebar"
    /\ run.returned
    /\ conversation = 2
    /\ chains[1].memory # <<>>
    /\ chains[1].vectorstore # chains[2].vectorstore
    /\ llm_history = <<>>
    /\ Len(rendered) = 2

\* C6: once the stored conversation is a chain, it is a chain in every later
\* state.
C6_ReadyForever == [][ Ready => Ready' ]_vars

\* C6 witness: a Process has just failed on a Ready session that had been
\* installed by the second successful Process.
C6_Witness ==
    /\ pc = "raised"
    /\ error \in ProcessErrors
    /\ Ready
    /\ conversation = 2

\* C8 (as stated): every chunk is at most chunk_size long, and 1200
\* characters without a newline give 2 chunks, the second at least as long
\* as the overlap it starts with.
C8_ChunksWithinSize ==
    pc = "build" =>
        /\ \A i \in DOMAIN text_chunks : ChunkLen(text_chunks[i]) <= chunk_size
        /\ raw_text = <<1200>> =>
               /\ Len(text_chunks) = 2
               /\ ChunkLen(text_chunks[2]) >= chunk_overlap

\* C9 (as stated): the query given to the retriever is the user's question
\* on every ask.
C9_QueryIsQuestion ==
    (pc = "sidebar" /\ run.returned) => retriever_query = user_question

\* C9 (amended): on an ask with an empty history the query given to the
\* retriever is the user's question; with a non-empty history it is the
\* question generator's output.
C9_QueryIsQuestionOnFirstAsk ==
    [][ (pc = "question" /\ retriever_query' # retriever_query) =>
            /\ chains[conversation].memory = <<>> => retriever_query' = user_question
            /\ chains[conversation].memory # <<>> =>
                   retriever_query' \in StandaloneQuestions ]_vars

\* C9 witness: a first ask whose query is the question, the session then
\* holding its turn.
C9_Witness ==
    /\ pc = "sidebar"
    /\ run.returned
    /\ llm_history = <<>>
    /\ retriever_query = user_question
    /\ Len(chains[conversation].memory) = 2

\* C10: a run that reaches the Process action with a question in the text
\* box has asked it, on the session stored when the run started, and the ask
\* has returned; a run asks on no other session than the one stored at its
\* start, so not on the one its own Process installs; a run in which a
\* statement raised executes nothing more.
C10_AskBeforeProcess ==
    [][ /\ (pc' \in ProcessStages /\ user_question' # "") =>
               /\ run'.returned
               /\ run'.asked_on = run'.start
               /\ run'.start = conversation'
        /\ run'.asked => run'.asked_on = run'.start
        /\ run'.returned => run'.asked
        /\ (pc = "install" /\ pc' = "idle" /\ run.asked) =>
               conversation' # run.asked_on
        /\ pc = "raised" => pc' = "idle" ]_vars

\* C10 witness: a run that asked on the first session, got its answer, and
\* is about to install the chain its Process built.
C10_Witness ==
    /\ pc = "install"
    /\ user_question # ""
    /\ run.returned
    /\ run.asked_on = 1
    /\ conversation = 1

====
